---- MODULE Spec2Model ----
(***************************************************************************)
(* The content pipeline of the blog: the loader (getAllArticles), the      *)
(* renderer (getArticleBySlug), the pages that call them and the listing   *)
(* filters of the client components.                                       *)
(*                                                                         *)
(* Strings are sequences of one-character strings, so that endsWith,       *)
(* replace, toLowerCase, includes and the < of the date sort are computed  *)
(* on the characters as the code computes them.                            *)
(***************************************************************************)
EXTENDS Integers, Sequences, FiniteSets, TLC

VARIABLES
    dirExists,          \* fs.existsSync(articlesDirectory)
    files,              \* the directory listing, in fs.readdirSync order
    last,               \* the last server-side call and its outcome
    articles,           \* the articles prop handed to the client components
    search,             \* useState("") of the search provider
    selectedTag,        \* useState of the tag selector
    selectedCategory,   \* useState of the category selector
    render,             \* the getArticleBySlug call in progress, if any
    prev,               \* the getArticleBySlug call completed before last
    content,            \* the content prop of MarkdownContent, as DOM nodes
    parsedContent,      \* what MarkdownContent renders for it
    theme,              \* the theme of the ThemeContext
    stored,             \* the theme kept in the browser's local storage
    rootDark,           \* document.documentElement.classList has 'dark'
    themeEvent,         \* the last event of the theme's lifecycle
    isModalOpen,        \* useState(false) of the search provider
    listeners,          \* the mousedown listeners registered on the document
    pushed,             \* what the last event handed to router.push, if anything
    lastEvent,          \* the last event the search provider handled
    fmState,            \* the useState values of FilterModalManager
    fmChildren          \* what FilterModalManager last rendered for its children

vars == <<dirExists, files, last, articles, search, selectedTag, selectedCategory,
          render, prev, content, parsedContent,
          theme, stored, rootDark, themeEvent,
          isModalOpen, listeners, pushed, lastEvent, fmState, fmChildren>>

fsVars == <<dirExists, files>>
uiVars == <<articles, search, selectedTag, selectedCategory>>
renderVars == <<render, prev>>
\* the state of the parts that the pages and the listing leave alone
contentVars == <<content, parsedContent>>
themeVars == <<theme, stored, rootDark, themeEvent>>
modalVars == <<isModalOpen, listeners, pushed, lastEvent>>
fmVars == <<fmState, fmChildren>>
restVars == <<renderVars, contentVars, themeVars, modalVars, fmVars>>

-----------------------------------------------------------------------------
(* Bounds of the model *)

\* the largest number of entries of the articles directory (server side)
MaxFiles == 3

\* the largest number of entries of the directory behind a mounted listing
MaxListed == 2

-----------------------------------------------------------------------------
(* JavaScript strings *)

UpperChars == <<"A","B","C","D","E","F","G","H","I","J","K","L","M",
                "N","O","P","Q","R","S","T","U","V","W","X","Y","Z">>
LowerChars == <<"a","b","c","d","e","f","g","h","i","j","k","l","m",
                "n","o","p","q","r","s","t","u","v","w","x","y","z">>
DigitChars == <<"0","1","2","3","4","5","6","7","8","9">>

Range(s) == {s[i] : i \in 1..Len(s)}

IndexOf(c, s) == CHOOSE i \in 1..Len(s) : s[i] = c

\* the UTF-16 code unit of a character (the order the < of strings uses)
CodeUnit(c) ==
    IF c \in Range(DigitChars) THEN 47 + IndexOf(c, DigitChars)
    ELSE IF c \in Range(UpperChars) THEN 64 + IndexOf(c, UpperChars)
    ELSE IF c \in Range(LowerChars) THEN 96 + IndexOf(c, LowerChars)
    ELSE CASE c = " " -> 32
           [] c = "-" -> 45
           [] c = "." -> 46
           [] c = "/" -> 47
           [] c = ":" -> 58

\* String.prototype.toLowerCase
toLowerCase(s) ==
    [i \in 1..Len(s) |->
        IF s[i] \in Range(UpperChars) THEN LowerChars[IndexOf(s[i], UpperChars)]
        ELSE s[i]]

\* String.prototype.includes
includes(s, sub) ==
    \E i \in 0..(Len(s) - Len(sub)) : SubSeq(s, i + 1, i + Len(sub)) = sub

\* String.prototype.endsWith
endsWith(s, suffix) ==
    /\ Len(suffix) <= Len(s)
    /\ SubSeq(s, Len(s) - Len(suffix) + 1, Len(s)) = suffix

DotMd == <<".", "m", "d">>

\* name.replace(/\.md$/, '')
StripMd(name) ==
    IF endsWith(name, DotMd) THEN SubSeq(name, 1, Len(name) - Len(DotMd))
    ELSE name

\* a < b on two strings: lexicographic on the code units, a proper prefix first
RECURSIVE StrLess(_, _)
StrLess(a, b) ==
    IF b = <<>> THEN FALSE
    ELSE IF a = <<>> THEN TRUE
    ELSE IF CodeUnit(a[1]) # CodeUnit(b[1]) THEN CodeUnit(a[1]) < CodeUnit(b[1])
    ELSE StrLess(Tail(a), Tail(b))

\* a >= b on two strings
StrGeq(a, b) == ~StrLess(a, b)

-----------------------------------------------------------------------------
(* The articles directory *)

\* file names an articles directory can hold
Names ==
    { <<"a", ".", "m", "d">>,
      <<"b", ".", "m", "d">>,
      <<"c", ".", "m", "d">>,
      <<"n", ".", "t", "x", "t">> }

S_DeFi     == <<"D","e","F","i">>
S_Solana   == <<"S","o","l","a","n","a">>
S_API      == <<"A","P","I">>
S_Research == <<"R","e","s","e","a","r","c","h">>
S_Blog     == <<"B","l","o","g">>

\* The front matter of a file as gray-matter returns it (data). undef names
\* the optional keys the block does not carry; a key it names reads undefined.
FrontMatters ==
    { [ title       |-> <<"P","a","y">>,
        author      |-> <<"A","n","n"," ","L","e","e">>,
        date        |-> <<"2","0","2","5","-","0","9","-","1","5">>,
        description |-> <<"f","a","s","t">>,
        tags        |-> <<S_DeFi, S_Solana>>,
        category    |-> S_Research,
        image       |-> <<"/","i",".","p","n","g">>,
        undef       |-> {} ],
      [ title       |-> <<"S","o","l","a","n","a"," ","1","0","1">>,
        author      |-> <<"J","."," ","B","o">>,
        date        |-> <<"2","0","2","5","-","0","1","-","0","1">>,
        description |-> <<"r","a","i","l","s">>,
        tags        |-> <<>>,
        category    |-> <<>>,
        image       |-> <<>>,
        undef       |-> {"tags", "category", "image"} ],
      [ title       |-> <<"F","A","Q">>,
        author      |-> <<"a","n","n"," "," ","l","e","e">>,
        date        |-> <<"2","0","2","5","-","0","9","-","2">>,
        description |-> <<"D","e","f","i"," ","p","a","y">>,
        tags        |-> <<S_API>>,
        category    |-> S_Blog,
        image       |-> <<>>,
        undef       |-> {} ] }

\* What a file holds: yaml is FALSE when its front-matter block is not valid
\* YAML (matter throws), body is FALSE when a stage of the Markdown pipeline
\* throws on its body.
Contents ==
    [yaml : {TRUE}, body : {TRUE}, data : FrontMatters]
    \cup { [yaml |-> FALSE, body |-> TRUE, data |-> fm] :
             fm \in {f \in FrontMatters : f.title = <<"F","A","Q">>} }
    \cup { [yaml |-> TRUE, body |-> FALSE, data |-> fm] :
             fm \in {f \in FrontMatters : f.title = <<"P","a","y">>} }

\* what an entry that is no Markdown file holds (the loader never reads it)
NoteContent == CHOOSE c \in Contents : ~c.yaml

\* the listings of at most n entries: the names of a directory are distinct
Directories(n) ==
    UNION { { d \in [1..k -> [name : Names, content : Contents]] :
                /\ \A i, j \in 1..k : i # j => d[i].name # d[j].name
                /\ \A i \in 1..k :
                      ~endsWith(d[i].name, DotMd) => d[i].content = NoteContent }
            : k \in 0..n }

\* fs.readFileSync(path.join(articlesDirectory, name)): the file, or none
HasFile(name) == dirExists /\ \E i \in 1..Len(files) : files[i].name = name
FileNamed(name) == files[CHOOSE i \in 1..Len(files) : files[i].name = name].content

-----------------------------------------------------------------------------
(* Array.prototype.sort as Node's engine runs it on an array shorter than  *)
(* 64 elements: the leading run is found (and reversed when descending),   *)
(* then the rest is placed by binary insertion. Indices are zero-based.    *)

At(w, i) == w[i + 1]

\* a.date < b.date: a comparison with an undefined date is false
DateLess(a, b) ==
    /\ "date" \notin a.undef
    /\ "date" \notin b.undef
    /\ StrLess(a.date, b.date)

\* a comparator with the test turned round: (a.date > b.date ? 1 : -1)
compareByDateAscending(a, b) == IF DateLess(b, a) THEN 1 ELSE -1

\* the comparator of getAllArticles: (a, b) => (a.date < b.date ? 1 : -1)
compareByDate(a, b) == IF DateLess(a, b) THEN 1 ELSE -1

ReverseRange(w, from, to) ==
    [i \in 1..Len(w) |->
        IF from < i /\ i <= to THEN w[from + to + 1 - i] ELSE w[i]]

RECURSIVE RunFrom(_, _, _, _, _)
RunFrom(w, isDescending, idx, high, runLength) ==
    IF idx >= high THEN runLength
    ELSE LET order == compareByDate(At(w, idx), At(w, idx - 1))
         IN  IF isDescending /\ order >= 0 THEN runLength
             ELSE IF ~isDescending /\ order < 0 THEN runLength
             ELSE RunFrom(w, isDescending, idx + 1, high, runLength + 1)

CountAndMakeRun(w, lowArg, high) ==
    LET low == lowArg + 1
    IN  IF low = high THEN [run |-> 1, work |-> w]
        ELSE LET isDescending == compareByDate(At(w, low), At(w, low - 1)) < 0
                 runLength    == RunFrom(w, isDescending, low + 1, high, 2)
             IN  [run  |-> runLength,
                  work |-> IF isDescending
                           THEN ReverseRange(w, lowArg, lowArg + runLength)
                           ELSE w]

RECURSIVE BinarySearch(_, _, _, _)
BinarySearch(w, pivot, left, right) ==
    IF left >= right THEN left
    ELSE LET mid == left + ((right - left) \div 2)
         IN  IF compareByDate(pivot, At(w, mid)) < 0
             THEN BinarySearch(w, pivot, left, mid)
             ELSE BinarySearch(w, pivot, mid + 1, right)

\* the element at start moved to left, those of [left, start) shifted up
MoveTo(w, start, left) ==
    [i \in 1..Len(w) |->
        IF i = left + 1 THEN At(w, start)
        ELSE IF left + 1 < i /\ i <= start + 1 THEN w[i - 1]
        ELSE w[i]]

RECURSIVE BinaryInsertionSort(_, _, _, _)
BinaryInsertionSort(w, low, start, high) ==
    IF start >= high THEN w
    ELSE LET left == BinarySearch(w, At(w, start), low, start)
         IN  BinaryInsertionSort(MoveTo(w, start, left), low, start + 1, high)

ArraySort(a) ==
    IF Len(a) < 2 THEN a
    ELSE LET r == CountAndMakeRun(a, 0, Len(a))
         IN  IF r.run < Len(a)
             THEN BinaryInsertionSort(r.work, 0, r.run, Len(a))
             ELSE r.work

-----------------------------------------------------------------------------
(* lib/markdown *)

Return(v) == [kind |-> "return", value |-> v]
Throw     == [kind |-> "throw"]

\* data.image || undefined
ImageUndefined(data) == "image" \in data.undef \/ data.image = <<>>

\* the object literal getAllArticles builds for one file
Summary(name, data) ==
    [ slug        |-> StripMd(name),
      title       |-> data.title,
      author      |-> data.author,
      date        |-> data.date,
      description |-> data.description,
      tags        |-> data.tags,
      category    |-> data.category,
      image       |-> IF ImageUndefined(data) THEN <<>> ELSE data.image,
      undef       |-> (data.undef \ {"image"})
                      \cup (IF ImageUndefined(data) THEN {"image"} ELSE {}) ]

\* fileNames.filter(name => name.endsWith('.md'))
MdFiles(listing) == SelectSeq(listing, LAMBDA f : endsWith(f.name, DotMd))

\* the loader without its existsSync guard: readdirSync throws on a missing
\* directory
getAllArticlesUnguarded(exists, listing) ==
    IF ~exists THEN Throw
    ELSE LET md == MdFiles(listing)
         IN  IF \E i \in 1..Len(md) : ~md[i].content.yaml THEN Throw
             ELSE Return(ArraySort(
                      [i \in 1..Len(md) |-> Summary(md[i].name, md[i].content.data)]))

\* getAllArticles(): matter(fileContents) throws on a block that is not valid
\* YAML, and nothing in the function catches it
getAllArticlesOf(exists, listing) ==
    IF ~exists THEN Return(<<>>)
    ELSE LET md == MdFiles(listing)
         IN  IF \E i \in 1..Len(md) : ~md[i].content.yaml THEN Throw
             ELSE Return(ArraySort(
                      [i \in 1..Len(md) |-> Summary(md[i].name, md[i].content.data)]))

getAllArticles == getAllArticlesOf(dirExists, files)

Null == [kind |-> "null"]

\* a renderer that gives up on the body only: a pipeline failure leaves an
\* article without content
loadArticleUnrendered(slug) ==
    LET name == slug \o DotMd
    IN  IF ~HasFile(name) THEN Throw
        ELSE LET f == FileNamed(name)
             IN  IF ~f.yaml THEN Throw
                 ELSE Return(
                      [ kind        |-> "article",
                        slug        |-> slug,
                        title       |-> f.data.title,
                        author      |-> f.data.author,
                        date        |-> f.data.date,
                        description |-> f.data.description,
                        tags        |-> f.data.tags,
                        category    |-> f.data.category,
                        image       |-> f.data.image,
                        undef       |-> f.data.undef,
                        content     |-> IF f.body THEN [html |-> name]
                                        ELSE [html |-> <<>>] ])

\* the Article literal with the image as the front matter gives it
ArticleLiteralRawImage(slug, data, processedContent) ==
    [ kind        |-> "article",
      slug        |-> slug,
      title       |-> data.title,
      author      |-> data.author,
      date        |-> data.date,
      description |-> data.description,
      tags        |-> data.tags,
      category    |-> data.category,
      image       |-> data.image,
      undef       |-> data.undef,
      content     |-> processedContent ]

\* the Article literal getArticleBySlug returns
ArticleLiteral(slug, data, processedContent) ==
    [ kind        |-> "article",
      slug        |-> slug,
      title       |-> data.title,
      author      |-> data.author,
      date        |-> data.date,
      description |-> data.description,
      tags        |-> data.tags,
      category    |-> data.category,
      image       |-> IF ImageUndefined(data) THEN <<>> ELSE data.image,
      undef       |-> (data.undef \ {"image"})
                      \cup (IF ImageUndefined(data) THEN {"image"} ELSE {}),
      content     |-> processedContent ]

\* the try block of getArticleBySlug: readFileSync throws when `${slug}.md`
\* is absent, matter on invalid YAML, process(content) when a stage of the
\* pipeline throws; otherwise the Article literal is returned
loadArticle(slug) ==
    LET name == slug \o DotMd
    IN  IF ~HasFile(name) THEN Throw
        ELSE LET f == FileNamed(name)
             IN  IF ~f.yaml THEN Throw
                 ELSE IF ~f.body THEN Throw
                 ELSE Return(ArticleLiteral(slug, f.data, [html |-> name]))

\* the renderer without its catch: the exception reaches the caller
getArticleBySlugUncaught(slug) ==
    LET r == loadArticle(slug)
    IN  IF r.kind = "throw" THEN Throw ELSE r.value

\* getArticleBySlug(slug): try { ... } catch (error) { return null }
getArticleBySlug(slug) ==
    LET r == loadArticle(slug)
    IN  IF r.kind = "throw" THEN Null ELSE r.value

-----------------------------------------------------------------------------
(* The listing filters of the client components *)

\* an optional key of an article that is not undefined
Has(a, key) == key \notin a.undef

\* Array.prototype.includes on the tags
TagsInclude(a, tag) == \E i \in 1..Len(a.tags) : a.tags[i] = tag

\* tags.some(tag => tag.toLowerCase().includes(lowerSearch))
SomeTagIncludes(a, lowerSearch) ==
    \E i \in 1..Len(a.tags) : includes(toLowerCase(a.tags[i]), lowerSearch)

S_AllTags       == <<"A","l","l"," ","T","a","g","s">>
S_AllCategories == <<"A","l","l"," ","C","a","t","e","g","o","r","i","e","s">>

\* ArticleList's predicate with an article without tags passing the tag test
ArticleListKeepsUntagged(a, q, tag, cat) ==
    LET matchesSearch ==
            \/ includes(toLowerCase(a.title), toLowerCase(q))
            \/ includes(toLowerCase(a.description), toLowerCase(q))
            \/ (Has(a, "tags") /\ SomeTagIncludes(a, toLowerCase(q)))
        matchesTag ==
            IF tag # <<>> THEN ~Has(a, "tags") \/ TagsInclude(a, tag) ELSE TRUE
        matchesCategory ==
            IF cat # <<>> THEN Has(a, "category") /\ a.category = cat ELSE TRUE
    IN  matchesSearch /\ matchesTag /\ matchesCategory

\* components/ArticleList.tsx: the predicate of articles.filter
ArticleListKeeps(a, q, tag, cat) ==
    LET matchesSearch ==
            \/ includes(toLowerCase(a.title), toLowerCase(q))
            \/ includes(toLowerCase(a.description), toLowerCase(q))
            \/ (Has(a, "tags") /\ SomeTagIncludes(a, toLowerCase(q)))
        matchesTag ==
            IF tag # <<>> THEN Has(a, "tags") /\ TagsInclude(a, tag) ELSE TRUE
        matchesCategory ==
            IF cat # <<>> THEN Has(a, "category") /\ a.category = cat ELSE TRUE
    IN  matchesSearch /\ matchesTag /\ matchesCategory

\* components/ArticleList.tsx: the cards ArticleList renders
ArticleList(list, q, tag, cat) ==
    SelectSeq(list, LAMBDA a : ArticleListKeeps(a, q, tag, cat))

\* the later ArticleList's predicate with the title compared in its own case
ArticleList2KeepsTitleCase(a, q, tag, cat) ==
    LET lowerSearch == toLowerCase(q)
        matchesSearch ==
            \/ q = <<>>
            \/ includes(a.title, lowerSearch)
            \/ includes(toLowerCase(a.description), lowerSearch)
        matchesTag ==
            \/ tag = <<>>
            \/ tag = S_AllTags
            \/ (Has(a, "tags") /\ TagsInclude(a, tag))
        matchesCategory ==
            \/ cat = <<>>
            \/ cat = S_AllCategories
            \/ (Has(a, "category") /\ a.category = cat)
    IN  matchesSearch /\ matchesTag /\ matchesCategory

\* the later ArticleList: the predicate of articles.filter
ArticleList2Keeps(a, q, tag, cat) ==
    LET lowerSearch == toLowerCase(q)
        matchesSearch ==
            \/ q = <<>>
            \/ includes(toLowerCase(a.title), lowerSearch)
            \/ includes(toLowerCase(a.description), lowerSearch)
        matchesTag ==
            \/ tag = <<>>
            \/ tag = S_AllTags
            \/ (Has(a, "tags") /\ TagsInclude(a, tag))
        matchesCategory ==
            \/ cat = <<>>
            \/ cat = S_AllCategories
            \/ (Has(a, "category") /\ a.category = cat)
    IN  matchesSearch /\ matchesTag /\ matchesCategory

\* the later ArticleList: the cards it renders
ArticleList2(list, q, tag, cat) ==
    SelectSeq(list, LAMBDA a : ArticleList2Keeps(a, q, tag, cat))

\* ArticleListWithSearch: its own filter, then <ArticleList articles={...} />
ArticleListWithSearch(list, q) ==
    LET filteredArticles ==
            SelectSeq(list, LAMBDA a :
                \/ includes(toLowerCase(a.title), toLowerCase(q))
                \/ includes(toLowerCase(a.description), toLowerCase(q))
                \/ (Has(a, "tags") /\ SomeTagIncludes(a, toLowerCase(q))))
    IN  ArticleList(filteredArticles, <<>>, <<>>, <<>>)

\* String.prototype.trim (the white space of the model is the blank)
RECURSIVE TrimStart(_)
TrimStart(s) == IF s # <<>> /\ Head(s) = " " THEN TrimStart(Tail(s)) ELSE s

RECURSIVE TrimEnd(_)
TrimEnd(s) ==
    IF s # <<>> /\ s[Len(s)] = " " THEN TrimEnd(SubSeq(s, 1, Len(s) - 1)) ELSE s

trim(s) == TrimEnd(TrimStart(s))

\* the overlay's filter without the search of the category text
filteredArticlesByTitleDescriptionTags(list, q, cat) ==
    LET lowerSearch == toLowerCase(q)
    IN  SelectSeq(list, LAMBDA a :
            /\ \/ trim(q) = <<>>
               \/ includes(toLowerCase(a.title), lowerSearch)
               \/ includes(toLowerCase(a.description), lowerSearch)
               \/ (Has(a, "tags") /\ SomeTagIncludes(a, lowerSearch))
            /\ \/ cat = <<>>
               \/ cat = S_AllCategories
               \/ (Has(a, "category") /\ a.category = cat))

\* SearchModalProvider: the filteredArticles memo of the search overlay
filteredArticles(list, q, cat) ==
    LET lowerSearch == toLowerCase(q)
    IN  SelectSeq(list, LAMBDA a :
            /\ \/ trim(q) = <<>>
               \/ includes(toLowerCase(a.title), lowerSearch)
               \/ includes(toLowerCase(a.description), lowerSearch)
               \/ (Has(a, "tags") /\ SomeTagIncludes(a, lowerSearch))
               \/ (Has(a, "category") /\ includes(toLowerCase(a.category), lowerSearch))
            /\ \/ cat = <<>>
               \/ cat = S_AllCategories
               \/ (Has(a, "category") /\ a.category = cat))

-----------------------------------------------------------------------------
(* The pages and generators that call the loader and the renderer *)

\* the slugs a request can name: those of the directory's names and one more
RequestSlugs == {StripMd(n) : n \in Names} \cup {<<"z">>}

NoCall == [kind |-> "none"]

S_ArticleNotFound ==
    <<"A","r","t","i","c","l","e"," ","N","o","t"," ","F","o","u","n","d">>

S_BaseUrl ==
    <<"h","t","t","p","s",":","/","/","b","l","o","g",".",
      "z","e","n","d","f","i",".","t","e","c","h">>
S_ArticlePath == <<"/","a","r","t","i","c","l","e","/">>
S_AuthorPath  == <<"/","a","u","t","h","o","r","/">>

\* str.replace(/\s+/g, '-')
RECURSIVE ReplaceWhitespaceRuns(_)
ReplaceWhitespaceRuns(s) ==
    IF s = <<>> THEN <<>>
    ELSE IF Head(s) = " " THEN <<"-">> \o ReplaceWhitespaceRuns(TrimStart(s))
    ELSE <<Head(s)>> \o ReplaceWhitespaceRuns(Tail(s))

\* article.author.toLowerCase().replace(/\s+/g, '-')
AuthorSlug(author) == ReplaceWhitespaceRuns(toLowerCase(author))

\* the author pages as they are, a page for every article
KeepEveryPage(pages) == pages

\* Array.from(new Map(pages.map(p => [p.url, p])).values()): one page per
\* url, at the place of the url's first page
RECURSIVE UniqueByUrl(_)
UniqueByUrl(pages) ==
    IF pages = <<>> THEN <<>>
    ELSE LET init == SubSeq(pages, 1, Len(pages) - 1)
             p    == pages[Len(pages)]
         IN  IF \E i \in 1..Len(init) : init[i].url = p.url
             THEN UniqueByUrl(init)
             ELSE UniqueByUrl(init) \o <<p>>

\* app/sitemap.ts, the entries by url and change frequency
sitemapOf(loaded) ==
    IF loaded.kind = "throw" THEN Throw
    ELSE LET list == loaded.value
             staticPages == << [url |-> S_BaseUrl, changeFrequency |-> "daily"] >>
             articlePages ==
                 [i \in 1..Len(list) |->
                     [url |-> S_BaseUrl \o S_ArticlePath \o list[i].slug,
                      changeFrequency |-> "monthly"]]
             authorPages ==
                 [i \in 1..Len(list) |->
                     [url |-> S_BaseUrl \o S_AuthorPath \o AuthorSlug(list[i].author),
                      changeFrequency |-> "weekly"]]
         IN  Return(staticPages \o articlePages \o UniqueByUrl(authorPages))

\* app/article/[slug]/page.tsx generateStaticParams
articleStaticParamsOf(loaded) ==
    IF loaded.kind = "throw" THEN Throw
    ELSE Return([i \in 1..Len(loaded.value) |-> [slug |-> loaded.value[i].slug]])

\* app/page.tsx Home: the cards of <ArticleList articles={articles} search=""
\* selectedTag="" selectedCategory="" />
HomeOf(loaded) ==
    IF loaded.kind = "throw" THEN Throw
    ELSE Return(ArticleList(loaded.value, <<>>, <<>>, <<>>))

\* app/article/[slug]/page.tsx ArticlePage: notFound() or <ArticleContent />
\* (an exception of the awaited call would leave the page as an error)
ArticlePageOf(article) ==
    IF article.kind = "throw" THEN [page |-> "error"]
    ELSE IF article.kind = "null" THEN [page |-> "not-found"]
    ELSE [page |-> "article", article |-> article]

\* app/article/[slug]/page.tsx generateMetadata
generateMetadataOf(article, slug) ==
    IF article.kind = "throw" THEN Throw
    ELSE IF article.kind = "null"
    THEN [kind |-> "metadata", title |-> S_ArticleNotFound, canonical |-> <<>>]
    ELSE [kind |-> "metadata", title |-> article.title,
          canonical |-> S_ArticlePath \o slug]

\* the names an author route can carry
RouteNames ==
    { <<"a","n","n","-","l","e","e">>,
      <<"A","n","n","-","L","e","e">>,
      <<"j","-","b","o">>,
      <<"j",".","-","b","o">>,
      <<"n","o","b","o","d","y">> }

\* str.replace(/[^a-z0-9]/g, '-')
ReplaceNonAlphanumerics(s) ==
    [i \in 1..Len(s) |->
        IF s[i] \in Range(LowerChars) \cup Range(DigitChars) THEN s[i] ELSE "-"]

\* str.replace(/-+/g, '-')
RECURSIVE CollapseHyphens(_)
CollapseHyphens(s) ==
    IF s = <<>> THEN <<>>
    ELSE IF Head(s) = "-" /\ Len(s) > 1 /\ s[2] = "-" THEN CollapseHyphens(Tail(s))
    ELSE <<Head(s)>> \o CollapseHyphens(Tail(s))

\* str.replace(/^-|-$/g, ''): a hyphen at the start and one at the end go
StripEdgeHyphens(s) ==
    LET t == IF s # <<>> /\ Head(s) = "-" THEN Tail(s) ELSE s
    IN  IF t # <<>> /\ t[Len(t)] = "-" THEN SubSeq(t, 1, Len(t) - 1) ELSE t

\* a slugify that hyphenates white space only, as the sitemap does
slugifyWhitespace(str) == AuthorSlug(str)

\* AuthorPage's helper slugify(str)
slugify(str) ==
    StripEdgeHyphens(CollapseHyphens(ReplaceNonAlphanumerics(toLowerCase(str))))

\* app/author/[name]/page.tsx AuthorPage: notFound() or the author's cards
AuthorPageOf(loaded, name) ==
    IF loaded.kind = "throw" THEN [page |-> "error"]
    ELSE LET authorSlug == toLowerCase(name)
             authorArticles ==
                 SelectSeq(loaded.value, LAMBDA a : slugify(a.author) = authorSlug)
         IN  IF Len(authorArticles) = 0 THEN [page |-> "not-found"]
             ELSE [page |-> "author", articles |-> authorArticles]

\* Array.from(new Set(values)): the values at their first occurrence
RECURSIVE UniqueValues(_)
UniqueValues(values) ==
    IF values = <<>> THEN <<>>
    ELSE LET init == SubSeq(values, 1, Len(values) - 1)
             v    == values[Len(values)]
         IN  IF \E i \in 1..Len(init) : init[i] = v
             THEN UniqueValues(init)
             ELSE UniqueValues(init) \o <<v>>

\* app/author/[name]/page.tsx generateStaticParams
authorStaticParamsOf(loaded) ==
    IF loaded.kind = "throw" THEN Throw
    ELSE LET authorSlugs ==
                 UniqueValues([i \in 1..Len(loaded.value) |->
                                   AuthorSlug(loaded.value[i].author)])
         IN  Return([k \in 1..Len(authorSlugs) |-> [name |-> authorSlugs[k]]])

Called(op, arg, loaded, out) == [op |-> op, arg |-> arg, loaded |-> loaded, out |-> out]

RootLayout ==
    /\ last' = Called("RootLayout", <<>>, getAllArticles, getAllArticles)
    /\ UNCHANGED <<fsVars, uiVars, restVars>>

Home ==
    /\ last' = Called("Home", <<>>, getAllArticles, HomeOf(getAllArticles))
    /\ UNCHANGED <<fsVars, uiVars, restVars>>

sitemap ==
    /\ last' = Called("sitemap", <<>>, getAllArticles, sitemapOf(getAllArticles))
    /\ UNCHANGED <<fsVars, uiVars, restVars>>

generateStaticParams ==
    /\ last' = Called("generateStaticParams", <<>>, getAllArticles,
                      articleStaticParamsOf(getAllArticles))
    /\ UNCHANGED <<fsVars, uiVars, restVars>>

ArticlePage ==
    \E slug \in RequestSlugs :
        /\ last' = Called("ArticlePage", slug, NoCall,
                          ArticlePageOf(getArticleBySlug(slug)))
        /\ UNCHANGED <<fsVars, uiVars, restVars>>

generateMetadata ==
    \E slug \in RequestSlugs :
        /\ last' = Called("generateMetadata", slug, NoCall,
                          generateMetadataOf(getArticleBySlug(slug), slug))
        /\ UNCHANGED <<fsVars, uiVars, restVars>>

AuthorPage ==
    \E name \in RouteNames :
        /\ last' = Called("AuthorPage", name, getAllArticles,
                          AuthorPageOf(getAllArticles, name))
        /\ UNCHANGED <<fsVars, uiVars, restVars>>

generateAuthorStaticParams ==
    /\ last' = Called("generateAuthorStaticParams", <<>>, getAllArticles,
                      authorStaticParamsOf(getAllArticles))
    /\ UNCHANGED <<fsVars, uiVars, restVars>>

\* no getArticleBySlug call is in progress, none has completed
Idle == [state |-> "idle"]
NoRender ==
    /\ render = Idle
    /\ prev = NoCall

\* MarkdownContent has nothing to render
NoContent ==
    /\ content = <<>>
    /\ parsedContent = [rendered |-> FALSE, nodes |-> <<>>]

\* a browser that never showed the site: no provider mounted, nothing stored
NoTheme ==
    /\ theme = "unset"
    /\ stored = "none"
    /\ rootDark = FALSE
    /\ themeEvent = "none"

\* the search provider as it mounts: useState(false), no effect has run
NoModal ==
    /\ isModalOpen = FALSE
    /\ listeners = 0
    /\ pushed = NoCall
    /\ lastEvent = "none"

\* FilterModalManager as it mounts: useState(false), useState("") three times
NoFilterModal ==
    /\ fmState = [isModalOpen |-> FALSE, search |-> <<>>,
                  selectedTag |-> <<>>, selectedCategory |-> <<>>]
    /\ fmChildren = NoCall

\* the parts the pages and the listing leave alone, in their first state
AtRest == NoRender /\ NoContent /\ NoTheme /\ NoModal /\ NoFilterModal

\* the client state before any component mounts
Unmounted ==
    /\ articles = <<>>
    /\ search = <<>>
    /\ selectedTag = <<>>
    /\ selectedCategory = <<>>

\* the content of the site at build and serve time: any directory, or none
Init ==
    /\ \/ dirExists = TRUE /\ files \in Directories(MaxFiles)
       \/ dirExists = FALSE /\ files = <<>>
    /\ last = Called("none", <<>>, NoCall, NoCall)
    /\ Unmounted
    /\ AtRest

Next ==
    \/ RootLayout
    \/ Home
    \/ sitemap
    \/ generateStaticParams
    \/ ArticlePage
    \/ generateMetadata
    \/ AuthorPage
    \/ generateAuthorStaticParams

Spec == Init /\ [][Next]_vars

-----------------------------------------------------------------------------
(* The mounted listing: RootLayout hands the loader's list to the search   *)
(* provider, whose state drives the filters.                               *)

\* the queries typed into the search input
Queries ==
    { <<>>,
      <<"s","o","l","a","n","a">>,
      <<"D","E","F","I">>,
      <<"b","l","o","g">>,
      <<" ">>,
      <<"q">> }

\* the values a tag selector can hold: both spellings of "all", tags in use
\* and a tag no article carries
TagOptions == {<<>>, S_AllTags, S_Solana, S_API, <<"M","P","C">>}

\* the values a category selector can hold
CategoryOptions == {<<>>, S_AllCategories, S_Research, S_Blog, <<"F","A","Q">>}

\* onChange of the search input: setSearch(e.target.value)
SetSearch ==
    \E q \in Queries :
        /\ search' = q
        /\ UNCHANGED <<fsVars, last, articles, selectedTag, selectedCategory, restVars>>

\* onChange of the tag select: setSelectedTag(e.target.value)
SetSelectedTag ==
    \E t \in TagOptions :
        /\ selectedTag' = t
        /\ UNCHANGED <<fsVars, last, articles, search, selectedCategory, restVars>>

\* onChange of the category select / onClick of a category button
SetSelectedCategory ==
    \E c \in CategoryOptions :
        /\ selectedCategory' = c
        /\ UNCHANGED <<fsVars, last, articles, search, selectedTag, restVars>>

\* a site whose layout rendered: the provider holds the loader's list
MountedInit ==
    /\ \/ dirExists = TRUE /\ files \in Directories(MaxListed)
       \/ dirExists = FALSE /\ files = <<>>
    /\ getAllArticles.kind = "return"
    /\ last = Called("RootLayout", <<>>, getAllArticles, getAllArticles)
    /\ articles = getAllArticles.value
    /\ search = <<>>
    /\ selectedTag \in {<<>>, S_AllTags}
    /\ selectedCategory \in {<<>>, S_AllCategories}
    /\ AtRest

MountedNext ==
    \/ SetSearch
    \/ SetSelectedTag
    \/ SetSelectedCategory

MountedSpec == MountedInit /\ [][MountedNext]_vars

-----------------------------------------------------------------------------
(* The renderer step by step: getArticleBySlug reads the file and its front *)
(* matter, awaits the processor, which runs its plugins in the order of the *)
(* .use() calls, and returns the Article literal; the catch returns null.   *)

\* the largest number of entries of the directory the renderer reads
MaxRendered == 1

\* the plugins in the order rehypeKatex would meet a Markdown tree
PipelineMathFirst ==
    << "remarkParse", "remarkMath", "remarkGfm", "rehypeKatex",
       "remarkRehype", "rehypePrettyCode", "rehypeStringify" >>

\* unified().use(...): the plugins of the processor, in attachment order
Pipeline ==
    << "remarkParse", "remarkMath", "remarkGfm", "remarkRehype",
       "rehypeKatex", "rehypePrettyCode", "rehypeStringify" >>

\* the document a plugin leaves: remarkParse turns the text into a Markdown
\* tree, remarkRehype that tree into an HTML tree, rehypeStringify the HTML
\* tree into a string; the others keep the form of what they are given
ApplyPlugin(plugin, doc) ==
    [ form |-> CASE plugin = "remarkParse" /\ doc.form = "text" -> "mdast"
                 [] plugin = "remarkRehype" /\ doc.form = "mdast" -> "hast"
                 [] plugin = "rehypeStringify" /\ doc.form = "hast" -> "html"
                 [] OTHER -> doc.form,
      ran  |-> Append(doc.ran, plugin) ]

\* a completed call of getArticleBySlug and what it returned
Rendered(slug, out) == [kind |-> "call", arg |-> slug, out |-> out]

\* the call returns: it becomes the last call, the one before it is kept
Returns(slug, out) ==
    /\ last' = Called("getArticleBySlug", slug, NoCall, out)
    /\ prev' = IF last.op = "getArticleBySlug"
               THEN Rendered(last.arg, last.out) ELSE NoCall
    /\ render' = Idle

\* getArticleBySlug(slug) up to the await: readFileSync and matter, whose
\* exceptions the catch turns into null
BeginRender ==
    \E slug \in RequestSlugs :
        /\ render = Idle
        /\ LET name == slug \o DotMd
           IN  IF ~HasFile(name) \/ ~FileNamed(name).yaml
               THEN Returns(slug, Null)
               ELSE /\ render' = [ state |-> "processing",
                                   slug  |-> slug,
                                   data  |-> FileNamed(name).data,
                                   body  |-> FileNamed(name).body,
                                   doc   |-> [form |-> "text", ran |-> <<>>] ]
                    /\ UNCHANGED <<last, prev>>
        /\ UNCHANGED <<fsVars, uiVars, contentVars, themeVars, modalVars, fmVars>>

\* .process(content): the next plugin runs; on a body the pipeline cannot
\* process one of the plugins throws, and the catch returns null
RunPlugin ==
    /\ render.state = "processing"
    /\ Len(render.doc.ran) < Len(Pipeline)
    /\ LET plugin == Pipeline[Len(render.doc.ran) + 1]
       IN  \E throws \in BOOLEAN :
               /\ throws => ~render.body
               /\ (~render.body /\ Len(render.doc.ran) + 1 = Len(Pipeline))
                      => throws
               /\ IF throws
                  THEN Returns(render.slug, Null)
                  ELSE /\ render' = [render EXCEPT
                                        !.doc = ApplyPlugin(plugin, render.doc)]
                       /\ UNCHANGED <<last, prev>>
    /\ UNCHANGED <<fsVars, uiVars, contentVars, themeVars, modalVars, fmVars>>

\* a renderer whose processor is kept between calls: once a call has run it,
\* the next call's .use() finds it frozen and the catch returns null
EndRenderFrozen ==
    /\ render.state = "processing"
    /\ Len(render.doc.ran) = Len(Pipeline)
    /\ Returns(render.slug,
               IF last.op = "getArticleBySlug" THEN Null
               ELSE ArticleLiteral(render.slug, render.data,
                                   [html |-> render.slug \o DotMd]))
    /\ UNCHANGED <<fsVars, uiVars, contentVars, themeVars, modalVars, fmVars>>

\* the return of the Article literal, content: processedContent.toString()
EndRender ==
    /\ render.state = "processing"
    /\ Len(render.doc.ran) = Len(Pipeline)
    /\ Returns(render.slug,
               ArticleLiteral(render.slug, render.data,
                              [html |-> render.slug \o DotMd]))
    /\ UNCHANGED <<fsVars, uiVars, contentVars, themeVars, modalVars, fmVars>>

\* a site the renderer is asked for articles of
RenderInit ==
    /\ \/ dirExists = TRUE /\ files \in Directories(MaxRendered)
       \/ dirExists = FALSE /\ files = <<>>
    /\ last = Called("none", <<>>, NoCall, NoCall)
    /\ Unmounted
    /\ AtRest

RenderNext ==
    \/ BeginRender
    \/ RunPlugin
    \/ EndRender

RenderSpec == RenderInit /\ [][RenderNext]_vars

-----------------------------------------------------------------------------
(* MarkdownContent: the article's HTML is parsed into DOM nodes and every   *)
(* node goes through the replace callback before it becomes a React element *)

\* the largest number of top-level nodes of a content
MaxNodes == 2

\* the attributes of a node the component reads or writes; undef names those
\* the node does not carry
NoAttribs ==
    [src |-> <<>>, alt |-> <<>>, loading |-> <<>>, undef |-> {"src", "alt", "loading"}]

Element(name, attribs, children) ==
    [type |-> "tag", name |-> name, attribs |-> attribs,
     children |-> children, data |-> <<>>]
TextNode(data) ==
    [type |-> "text", name |-> "", attribs |-> NoAttribs,
     children |-> <<>>, data |-> data]
\* a React component element, <Image ... />
Component(name, attribs) ==
    [type |-> "component", name |-> name, attribs |-> attribs,
     children |-> <<>>, data |-> <<>>]

\* the <img> elements of a content: a local one with an alt text, an external
\* one, one whose src is the empty string and one without src
ImgAttribs ==
    { [NoAttribs EXCEPT !.src = <<"/","i",".","p","n","g">>, !.alt = <<"a">>,
                        !.undef = {"loading"}],
      [NoAttribs EXCEPT !.src = <<"h","t","t","p","s",":","/","/","x","/","i">>,
                        !.undef = {"alt", "loading"}],
      [NoAttribs EXCEPT !.undef = {"alt", "loading"}],
      NoAttribs }

LeafNodes ==
    {Element("img", a, <<>>) : a \in ImgAttribs} \cup {TextNode(<<"h","i">>)}

\* the nodes of a content: the leaves, and paragraphs of at most one leaf
DomNodes ==
    LeafNodes
    \cup {Element("p", NoAttribs, <<>>)}
    \cup {Element("p", NoAttribs, <<n>>) : n \in LeafNodes}

\* the contents of at most n top-level nodes
Documents(n) == UNION {[1..k -> DomNodes] : k \in 0..n}

\* String.prototype.startsWith
startsWith(s, prefix) ==
    Len(s) >= Len(prefix) /\ SubSeq(s, 1, Len(prefix)) = prefix

\* a test that takes every image with a src for a local one
HasSrc(attribs) ==
    "src" \notin attribs.undef /\ attribs.src # <<>>

\* src && src.startsWith('/')
IsLocalSrc(attribs) ==
    /\ "src" \notin attribs.undef
    /\ attribs.src # <<>>
    /\ startsWith(attribs.src, <<"/">>)

\* alt || ''
AltOrEmpty(attribs) == IF "alt" \in attribs.undef THEN <<>> ELSE attribs.alt

\* the element the replace callback returns for an <img>
Replacement(domNode) ==
    IF IsLocalSrc(domNode.attribs)
    THEN Element("span", NoAttribs,
             << Component("Image",
                    [ src |-> domNode.attribs.src,
                      alt |-> AltOrEmpty(domNode.attribs),
                      loading |-> <<>>,
                      undef |-> {"loading"} ]) >>)
    ELSE Element("span", NoAttribs,
             << Element("img",
                    [ src |-> domNode.attribs.src,
                      alt |-> AltOrEmpty(domNode.attribs),
                      loading |-> <<"l","a","z","y">>,
                      undef |-> domNode.attribs.undef \cap {"src"} ],
                    <<>>) >>)

\* the replace callback returns an element: domNode is an Element named img
Replaces(domNode) == domNode.type = "tag" /\ domNode.name = "img"

\* parse(content, options): a node the callback replaces becomes its
\* replacement, any other node is kept and its children are parsed
RECURSIVE domToReact(_)
domToReact(nodes) ==
    [i \in 1..Len(nodes) |->
        IF Replaces(nodes[i]) THEN Replacement(nodes[i])
        ELSE [nodes[i] EXCEPT !.children = domToReact(nodes[i].children)]]

\* MarkdownContent({ content }): the memo parsedContent
MarkdownContent ==
    /\ parsedContent' = [rendered |-> TRUE, nodes |-> domToReact(content)]
    /\ UNCHANGED <<fsVars, last, uiVars, renderVars, content, themeVars, modalVars, fmVars>>

\* an article page whose content is any HTML of the catalogue
ContentInit ==
    /\ dirExists = FALSE /\ files = <<>>
    /\ last = Called("none", <<>>, NoCall, NoCall)
    /\ Unmounted
    /\ NoRender /\ NoTheme /\ NoModal /\ NoFilterModal
    /\ content \in Documents(MaxNodes)
    /\ parsedContent = [rendered |-> FALSE, nodes |-> <<>>]

ContentNext == MarkdownContent

ContentSpec == ContentInit /\ [][ContentNext]_vars

-----------------------------------------------------------------------------
(* The theme: the ThemeContext provider mounted by RootLayout keeps the     *)
(* theme, the Header's button toggles it and the Header's effect puts it on *)
(* the document root.                                                       *)

Themes == {"light", "dark"}

\* the theme a click changes t to
OtherTheme(t) == IF t = "dark" THEN "light" ELSE "dark"

\* an effect that only ever adds the class
DarkClassAdded(t) == TRUE

\* Header's effect: classList.toggle('dark', theme === 'dark') leaves the
\* class on the root exactly when its second argument is true
DarkClassToggled(t) == (t = "dark")

\* the provider mounts: the theme is the stored one, or the default when
\* nothing is stored; the Header's effect runs for it
ThemeProviderMount ==
    /\ themeEvent \in {"none", "unmount"}
    /\ \E default \in Themes :
          theme' = IF stored \in Themes THEN stored ELSE default
    /\ rootDark' = DarkClassToggled(theme')
    /\ themeEvent' = "mount"
    /\ UNCHANGED <<fsVars, last, uiVars, renderVars, contentVars, stored, modalVars, fmVars>>

\* onClick={toggleTheme} of the Header's button: the theme flips and is
\* stored; the Header's effect runs for the new theme
toggleTheme ==
    /\ themeEvent \in {"mount", "toggle"}
    /\ theme' = OtherTheme(theme)
    /\ stored' = theme'
    /\ rootDark' = DarkClassToggled(theme')
    /\ themeEvent' = "toggle"
    /\ UNCHANGED <<fsVars, last, uiVars, renderVars, contentVars, modalVars, fmVars>>

\* the page is left or reloaded: the provider's state and the document go,
\* the local storage stays
ThemeProviderUnmount ==
    /\ themeEvent \in {"mount", "toggle"}
    /\ theme' = "unset"
    /\ rootDark' = FALSE
    /\ themeEvent' = "unmount"
    /\ UNCHANGED <<fsVars, last, uiVars, renderVars, contentVars, stored, modalVars, fmVars>>

\* a site whose layout rendered, in a browser that never showed it
ThemeInit ==
    /\ \/ dirExists = TRUE /\ files \in Directories(MaxListed)
       \/ dirExists = FALSE /\ files = <<>>
    /\ getAllArticles.kind = "return"
    /\ last = Called("RootLayout", <<>>, getAllArticles, getAllArticles)
    /\ articles = getAllArticles.value
    /\ search = <<>>
    /\ selectedTag \in {<<>>, S_AllTags}
    /\ selectedCategory \in {<<>>, S_AllCategories}
    /\ AtRest

ThemeNext ==
    \/ ThemeProviderMount
    \/ toggleTheme
    \/ ThemeProviderUnmount

ThemeSpec == ThemeInit /\ [][ThemeNext]_vars

-----------------------------------------------------------------------------
(* The search overlay: the latest SearchModalProvider keeps isModalOpen,    *)
(* search and selectedCategory; its handlers open and close the modal,      *)
(* navigate, and an effect keyed on isModalOpen keeps the document's        *)
(* mousedown listener.                                                      *)

\* the categories of the provider's buttons
OverlayCategories == CategoryOptions \ {<<>>}

\* the keys pressed in the search input
Keys == {"Enter", "Escape", "a"}

\* router.push(`/article/${slug}`)
Push(slug) == [kind |-> "push", slug |-> slug]

\* the effect without its cleanup: every opening adds a listener
ListenersAfterNoCleanup(n, wasOpen, nowOpen) ==
    IF wasOpen # nowOpen /\ nowOpen THEN n + 1 ELSE n

\* the effect of [isModalOpen]: when isModalOpen changed, the cleanup of the
\* previous run removes the listener it had added, then the new run adds one
\* if the modal is open
ListenersAfter(n, wasOpen, nowOpen) ==
    IF wasOpen = nowOpen THEN n
    ELSE LET cleaned == IF wasOpen THEN n - 1 ELSE n
         IN  IF nowOpen THEN cleaned + 1 ELSE cleaned

\* what the provider's state is after a handler: the values it set, and what
\* it pushed to the router
After(open, q, push) == [isModalOpen |-> open, search |-> q, pushed |-> push]

\* a key handler in which Enter only closes the modal
handleSearchKeyDownCloseOnly(key, results) ==
    IF key = "Enter" THEN After(FALSE, search, NoCall)
    ELSE IF key = "Escape" THEN After(FALSE, <<>>, NoCall)
    ELSE After(isModalOpen, search, NoCall)

\* handleSearchKeyDown(e), results being the memo filteredArticles
handleSearchKeyDown(key, results) ==
    IF key = "Enter" /\ Len(results) > 0
    THEN After(FALSE, <<>>, Push(results[1].slug))
    ELSE IF key = "Escape" THEN After(FALSE, <<>>, NoCall)
    ELSE After(isModalOpen, search, NoCall)

\* handleArticleClick(slug)
handleArticleClick(slug) == After(FALSE, <<>>, Push(slug))

\* handleClickOutside(evt): modalRef.current is set while the modal is
\* rendered, and contains the target when the mousedown is inside it
handleClickOutside(target) ==
    IF isModalOpen /\ target = "outside"
    THEN After(FALSE, search, NoCall)
    ELSE After(isModalOpen, search, NoCall)

\* the result buttons the overlay renders: those of filteredArticles for a
\* query that is not blank, none ("Start typing to search articles") otherwise
DisplayedResults ==
    IF trim(search) # <<>>
    THEN filteredArticles(articles, search, selectedCategory)
    ELSE <<>>

\* the provider re-renders with the state a handler left and its effects run
Handled(event, next) ==
    /\ isModalOpen' = next.isModalOpen
    /\ search' = next.search
    /\ pushed' = next.pushed
    /\ lastEvent' = event
    /\ listeners' = ListenersAfter(listeners, isModalOpen, next.isModalOpen)
    /\ UNCHANGED <<fsVars, last, articles, selectedTag, selectedCategory,
                   renderVars, contentVars, themeVars, fmVars>>

\* Header's onOpenFilterModal: setModalOpen(true); the open overlay covers
\* the header
OpenModal ==
    /\ ~isModalOpen
    /\ Handled("open", After(TRUE, search, NoCall))

\* onChange of the overlay's input: setSearch(e.target.value)
TypeSearch ==
    /\ isModalOpen
    /\ \E q \in Queries : Handled("type", After(isModalOpen, q, NoCall))

\* onKeyDown of the overlay's input
KeyDown ==
    /\ isModalOpen
    /\ \E key \in Keys :
          Handled(key, handleSearchKeyDown(key,
                           filteredArticles(articles, search, selectedCategory)))

\* onClick of a result button: the buttons are rendered for a query that is
\* not blank, one per filtered article
ClickResult ==
    /\ isModalOpen
    /\ trim(search) # <<>>
    /\ LET results == filteredArticles(articles, search, selectedCategory)
       IN  \E i \in 1..Len(results) :
               Handled("click", handleArticleClick(results[i].slug))

\* onClick of the close button
CloseButton ==
    /\ isModalOpen
    /\ Handled("close", After(FALSE, <<>>, NoCall))

\* a mousedown on the document: every registered listener runs
MouseDown ==
    \E target \in {"inside", "outside"} :
        /\ target = "inside" => isModalOpen
        /\ Handled(target,
                   IF listeners > 0 THEN handleClickOutside(target)
                   ELSE After(isModalOpen, search, NoCall))

\* onClick of a category button of the home page
ClickCategory ==
    /\ ~isModalOpen
    /\ \E c \in OverlayCategories :
          /\ selectedCategory' = c
          /\ lastEvent' = "category"
          /\ pushed' = NoCall
          /\ UNCHANGED <<fsVars, last, articles, search, selectedTag,
                         isModalOpen, listeners,
                         renderVars, contentVars, themeVars, fmVars>>

\* a site whose layout rendered: the provider holds the loader's list
OverlayInit ==
    /\ \/ dirExists = TRUE /\ files \in Directories(MaxListed)
       \/ dirExists = FALSE /\ files = <<>>
    /\ getAllArticles.kind = "return"
    /\ last = Called("RootLayout", <<>>, getAllArticles, getAllArticles)
    /\ articles = getAllArticles.value
    /\ search = <<>>
    /\ selectedTag = <<>>
    /\ selectedCategory = S_AllCategories
    /\ AtRest

OverlayNext ==
    \/ OpenModal
    \/ TypeSearch
    \/ KeyDown
    \/ ClickResult
    \/ CloseButton
    \/ MouseDown
    \/ ClickCategory

OverlaySpec == OverlayInit /\ [][OverlayNext]_vars

-----------------------------------------------------------------------------
(* Files outside the front-matter contract: matter() returns data = {} for *)
(* a file without a front-matter block, and whatever keys a block holds.  *)

\* the data of a file without a front-matter block (as the article whose
\* metadata is in a yaml code fence)
NoFrontMatter ==
    [ title |-> <<>>, author |-> <<>>, date |-> <<>>, description |-> <<>>,
      tags |-> <<>>, category |-> <<>>, image |-> <<>>,
      undef |-> {"title", "author", "date", "description",
                 "tags", "category", "image"} ]

\* the front matter fm without the key
Lacking(fm, key) == [fm EXCEPT ![key] = <<>>, !.undef = @ \cup {key}]

PayFrontMatter == CHOOSE fm \in FrontMatters : fm.title = <<"P","a","y">>
FAQFrontMatter == CHOOSE fm \in FrontMatters : fm.title = <<"F","A","Q">>

LooseFrontMatters ==
    { NoFrontMatter,
      Lacking(PayFrontMatter, "title"),
      Lacking(FAQFrontMatter, "description"),
      PayFrontMatter }

LooseContents == [yaml : {TRUE}, body : {TRUE}, data : LooseFrontMatters]

\* the listings of at most n Markdown files of any front matter
LooseDirectories(n) ==
    UNION { { d \in [1..k -> [name : Names, content : LooseContents]] :
                /\ \A i, j \in 1..k : i # j => d[i].name # d[j].name
                /\ \A i \in 1..k : endsWith(d[i].name, DotMd) }
            : k \in 1..n }

\* ArticleList.tsx: article.title.toLowerCase() is evaluated for every
\* article, article.description.toLowerCase() when the title does not match;
\* either throws a TypeError on undefined
ArticleListFilter(list, q, tag, cat) ==
    IF \E i \in 1..Len(list) :
          \/ ~Has(list[i], "title")
          \/ /\ ~includes(toLowerCase(list[i].title), toLowerCase(q))
             /\ ~Has(list[i], "description")
    THEN Throw
    ELSE Return(ArticleList(list, q, tag, cat))

\* the later ArticleList: !search || a.title.toLowerCase()... reads the title
\* when the query is not empty; the description is read with ?.
ArticleList2Filter(list, q, tag, cat) ==
    IF q # <<>> /\ \E i \in 1..Len(list) : ~Has(list[i], "title")
    THEN Throw
    ELSE Return(ArticleList2(list, q, tag, cat))

\* the overlay's memo: !search.trim() || article.title.toLowerCase()...
filteredArticlesMemo(list, q, cat) ==
    IF trim(q) # <<>> /\ \E i \in 1..Len(list) : ~Has(list[i], "title")
    THEN Throw
    ELSE Return(filteredArticles(list, q, cat))

\* a site whose content directory holds files of any front matter
LooseInit ==
    /\ dirExists = TRUE
    /\ files \in LooseDirectories(MaxListed)
    /\ getAllArticles.kind = "return"
    /\ last = Called("RootLayout", <<>>, getAllArticles, getAllArticles)
    /\ articles = getAllArticles.value
    /\ search = <<>>
    /\ selectedTag = <<>>
    /\ selectedCategory \in {<<>>, S_AllCategories}
    /\ AtRest

LooseSpec == LooseInit /\ [][MountedNext]_vars

-----------------------------------------------------------------------------
(* components/FilterModalManager.tsx wrapped round the home page's children *)

tagsList ==
    << S_AllTags, <<"B","l","o","c","k","c","h","a","i","n">>, <<"A","I">>,
       <<"S","e","c","u","r","i","t","y">> >>

categoriesList ==
    << S_AllCategories, S_Research,
       <<"D","e","v","e","l","o","p","m","e","n","t">>,
       <<"T","u","t","o","r","i","a","l">> >>

\* the values of the options of a select: '' for the leading label
OptionValues(options, allLabel) ==
    {IF options[i] = allLabel THEN <<>> ELSE options[i] : i \in 1..Len(options)}

\* a manager whose modal starts open
FilterModalManagerOpenState ==
    [isModalOpen |-> TRUE, search |-> <<>>, selectedTag |-> <<>>,
     selectedCategory |-> <<>>]

\* the four useState calls of FilterModalManager
FilterModalManagerState ==
    [isModalOpen |-> FALSE, search |-> <<>>, selectedTag |-> <<>>,
     selectedCategory |-> <<>>]

FilterEvent(kind, value) == [kind |-> kind, value |-> value]

\* the handlers of the elements FilterModalManager renders: those of the
\* modal exist only while isModalOpen; the parent may render it again at any
\* time. The Header with onOpenFilterModal is commented out.
FilterHandlers(state) ==
    {FilterEvent("render", <<>>)}
    \cup (IF state.isModalOpen
          THEN {FilterEvent("close", <<>>)}
               \cup {FilterEvent("change", q) : q \in Queries}
               \cup {FilterEvent("keydown", key) : key \in Keys}
               \cup {FilterEvent("tag", t) : t \in OptionValues(tagsList, S_AllTags)}
               \cup {FilterEvent("category", c) :
                        c \in OptionValues(categoriesList, S_AllCategories)}
          ELSE {})

\* the state after a handler ran
FilterHandled(state, e) ==
    CASE e.kind = "close"    -> [state EXCEPT !.isModalOpen = FALSE]
      [] e.kind = "change"   -> [state EXCEPT !.search = e.value]
      [] e.kind = "keydown"  ->
            IF e.value = "Enter" THEN [state EXCEPT !.isModalOpen = FALSE]
            ELSE state
      [] e.kind = "tag"      -> [state EXCEPT !.selectedTag = e.value]
      [] e.kind = "category" -> [state EXCEPT !.selectedCategory = e.value]
      [] OTHER               -> state

\* childrenWithProps: every child of Home is cloned with the manager's
\* search, selectedTag and selectedCategory in place of its own; the
\* ArticleList among them renders the articles its filter keeps
childrenWithProps(state, list) ==
    [ kind  |-> "rendered",
      props |-> [search           |-> state.search,
                 selectedTag      |-> state.selectedTag,
                 selectedCategory |-> state.selectedCategory],
      shown |-> ArticleList(list, state.search, state.selectedTag,
                            state.selectedCategory) ]

\* an event of the manager, and the render that follows it
FilterModalManager ==
    \E e \in FilterHandlers(fmState) :
        /\ fmState' = FilterHandled(fmState, e)
        /\ fmChildren' = childrenWithProps(fmState', articles)
        /\ UNCHANGED <<fsVars, last, uiVars, renderVars, contentVars,
                       themeVars, modalVars>>

\* Home: the articles of getAllArticles() handed to the wrapped ArticleList
FilterInit ==
    /\ \/ dirExists = TRUE /\ files \in Directories(MaxListed)
       \/ dirExists = FALSE /\ files = <<>>
    /\ getAllArticles.kind = "return"
    /\ last = Called("Home", <<>>, getAllArticles, getAllArticles)
    /\ articles = getAllArticles.value
    /\ search = <<>>
    /\ selectedTag = <<>>
    /\ selectedCategory = <<>>
    /\ NoRender /\ NoContent /\ NoTheme /\ NoModal
    /\ fmState = FilterModalManagerState
    /\ fmChildren = NoCall

FilterNext == FilterModalManager

FilterSpec == FilterInit /\ [][FilterNext]_vars

-----------------------------------------------------------------------------
(* The loader's claims *)

\* the last call ran getAllArticles
LoaderCalled == last.loaded.kind # "none"

\* getAllArticles returned a list to the last call
LoaderReturned == last.loaded.kind = "return"

\* the indices of the listing that hold Markdown files
MdIndices == {i \in 1..Len(files) : endsWith(files[i].name, DotMd)}

\* the place in the listing of the file a summary was built from
FileIndex(summary) ==
    CHOOSE i \in 1..Len(files) : files[i].name = summary.slug \o DotMd

\* C1: whenever getAllArticles is called it returns a list that holds exactly
\* one summary for every directory entry whose name ends in ".md" and none
\* for any other entry; each slug is the file name without the trailing
\* ".md", and the slugs are pairwise distinct.
C1_OneSummaryPerMdFile ==
    LoaderCalled =>
        /\ LoaderReturned
        /\ LET list == last.loaded.value
           IN  /\ \A i \in MdIndices :
                     Cardinality({k \in 1..Len(list) :
                         /\ list[k].slug \o DotMd = files[i].name
                         /\ Len(list[k].slug) = Len(files[i].name) - Len(DotMd)}) = 1
               /\ \A k \in 1..Len(list) :
                     \E i \in MdIndices : list[k].slug \o DotMd = files[i].name
               /\ \A k, m \in 1..Len(list) : k # m => list[k].slug # list[m].slug

\* C2: the sequence getAllArticles returns is sorted by date descending:
\* date[i] >= date[i+1] for all adjacent positions, whatever the listing order.
C2_SortedByDateDescending ==
    LoaderReturned =>
        LET list == last.loaded.value
        IN  \A i \in 1..(Len(list) - 1) : StrGeq(list[i].date, list[i + 1].date)

\* C2 witness: a call returned three articles of three dates from a listing
\* that was in no date order
C2_Witness ==
    /\ LoaderReturned
    /\ Len(last.loaded.value) = 3
    /\ \A i \in 1..2 :
          StrLess(last.loaded.value[i + 1].date, last.loaded.value[i].date)
    /\ Len(files) = 3
    /\ StrLess(files[1].content.data.date, files[2].content.data.date)
    /\ StrLess(files[3].content.data.date, files[2].content.data.date)

\* C3: articles of the same date are returned in their listing order.
C3_TiesKeepInputOrder ==
    LoaderReturned =>
        LET list == last.loaded.value
        IN  \A i, j \in 1..Len(list) :
                (i < j /\ list[i].date = list[j].date)
                    => FileIndex(list[i]) < FileIndex(list[j])

\* C4: a Markdown file whose front matter fails to parse is skipped silently:
\* the call returns, and the list holds the summaries of all the other
\* Markdown files and none for the file that failed.
C4_UnparseableFileSkipped ==
    (LoaderCalled /\ \E i \in MdIndices : ~files[i].content.yaml) =>
        /\ LoaderReturned
        /\ \A i \in MdIndices :
              files[i].content.yaml <=>
                  \E k \in 1..Len(last.loaded.value) :
                      last.loaded.value[k].slug = StripMd(files[i].name)

\* the root entry of the sitemap
RootEntry == [url |-> S_BaseUrl, changeFrequency |-> "daily"]

\* C5: when the articles directory does not exist, getAllArticles returns the
\* empty sequence and raises no error, and every caller proceeds with an
\* empty list: the layout and the home listing show nothing, the sitemap has
\* its root entry only, no article page is generated.
C5_MissingDirectoryEmptyList ==
    (~dirExists /\ LoaderCalled) =>
        /\ last.loaded = Return(<<>>)
        /\ last.op = "RootLayout" => last.out = Return(<<>>)
        /\ last.op = "Home" => last.out = Return(<<>>)
        /\ last.op = "sitemap" => last.out = Return(<<RootEntry>>)
        /\ last.op = "generateStaticParams" => last.out = Return(<<>>)

\* C5 witness: the sitemap was generated without an articles directory
C5_Witness ==
    /\ ~dirExists
    /\ last.op = "sitemap"
    /\ last.out.kind = "return"
    /\ Len(last.out.value) = 1

-----------------------------------------------------------------------------
(* The renderer's claims *)

\* the file a request for the last call's slug reads
RequestedName == last.arg \o DotMd

\* C6: a request for a slug with no matching file ends in the not-found
\* condition and never in an exception: getArticleBySlug returns null,
\* ArticlePage renders the not-found page and generateMetadata returns the
\* "Article Not Found" metadata.
C6_MissingSlugNotFound ==
    (last.op \in {"ArticlePage", "generateMetadata"} /\ ~HasFile(RequestedName)) =>
        /\ getArticleBySlug(last.arg) = Null
        /\ last.op = "ArticlePage" => last.out = [page |-> "not-found"]
        /\ last.op = "generateMetadata" =>
              /\ last.out.kind = "metadata"
              /\ last.out.title = S_ArticleNotFound

\* C6 witness: an article page was requested for a slug that no file of a
\* non-empty directory carries
C6_Witness ==
    /\ last.op = "ArticlePage"
    /\ dirExists
    /\ Len(files) > 0
    /\ ~HasFile(RequestedName)
    /\ last.out.page = "not-found"

\* the outcome of ArticlePage for a slug that has no file
MissingFilePage == ArticlePageOf(Null)

\* C7: when the file exists but its front matter or a stage of the pipeline
\* throws, the result is that of a missing file: getArticleBySlug returns
\* null, the page is the same not-found page, the metadata the same fallback;
\* and an article is returned only whole, from a file that parsed and rendered.
C7_RenderFailureIsNotFound ==
    /\ (last.op \in {"ArticlePage", "generateMetadata"}
            /\ HasFile(RequestedName)
            /\ (~FileNamed(RequestedName).yaml \/ ~FileNamed(RequestedName).body)) =>
          /\ getArticleBySlug(last.arg) = Null
          /\ last.op = "ArticlePage" => last.out = MissingFilePage
          /\ last.op = "generateMetadata" =>
                last.out = generateMetadataOf(Null, last.arg)
    /\ (last.op = "ArticlePage" /\ last.out.page = "article") =>
          /\ HasFile(RequestedName)
          /\ FileNamed(RequestedName).yaml
          /\ FileNamed(RequestedName).body
          /\ last.out.article.content = [html |-> RequestedName]
          /\ last.out.article.title = FileNamed(RequestedName).data.title

\* C7 witness: the page of a file whose front matter parses and whose body
\* fails in the pipeline was requested, and is the not-found page
C7_Witness ==
    /\ last.op = "ArticlePage"
    /\ HasFile(RequestedName)
    /\ FileNamed(RequestedName).yaml
    /\ ~FileNamed(RequestedName).body
    /\ last.out = [page |-> "not-found"]

-----------------------------------------------------------------------------
(* The listing filter's claims *)

\* the settings of a selector that stand for "all"
AllTagValues      == {<<>>, S_AllTags}
AllCategoryValues == {<<>>, S_AllCategories}

\* the query is a case-insensitive substring of s
ContainsQuery(s, q) == includes(toLowerCase(s), toLowerCase(q))

\* the articles the specification's filter keeps, allTags and allCategories
\* being the selector settings that stand for "all"
SpecifiedKeeps(a, q, tag, cat, allTags, allCategories) ==
    /\ \/ ContainsQuery(a.title, q)
       \/ ContainsQuery(a.description, q)
       \/ (Has(a, "tags") /\ \E i \in 1..Len(a.tags) : ContainsQuery(a.tags[i], q))
    /\ tag \in allTags \/ (Has(a, "tags") /\ TagsInclude(a, tag))
    /\ cat \in allCategories \/ (Has(a, "category") /\ a.category = cat)

\* the cards of the two ArticleList components for the provider's state
Shown  == ArticleList(articles, search, selectedTag, selectedCategory)
Shown2 == ArticleList2(articles, search, selectedTag, selectedCategory)

\* C8: for every article list, query and tag/category selectors, ArticleList
\* shows exactly the articles whose title, description or a tag contains the
\* query case-insensitively, whose tags hold the selected tag unless it is
\* "all", and whose category is the selected one unless it is "all", in
\* their original order. ("All" is read as each component reads it: the
\* empty string for the first ArticleList, the empty string or the label for
\* the second.)
C8_ListingShowsExactlyMatches ==
    /\ Shown = SelectSeq(articles, LAMBDA a :
                  SpecifiedKeeps(a, search, selectedTag, selectedCategory,
                                 {<<>>}, {<<>>}))
    /\ Shown2 = SelectSeq(articles, LAMBDA a :
                  SpecifiedKeeps(a, search, selectedTag, selectedCategory,
                                 AllTagValues, AllCategoryValues))

\* C9: with an empty query and both selectors at "all" (the empty string or
\* the labels "All Tags" / "All Categories") the listing is the full list,
\* unchanged.
C9_EmptyFilterReturnsAll ==
    (/\ search = <<>>
     /\ selectedTag \in AllTagValues
     /\ selectedCategory \in AllCategoryValues) =>
        Shown = articles /\ Shown2 = articles

\* the article is shown by a listing
IsIn(a, list) == \E i \in 1..Len(list) : list[i] = a

\* the query matches a tag of the article, and only case-insensitively, and
\* occurs in neither its title nor its description
MatchesByTagOnly(a, q) ==
    /\ q # <<>>
    /\ Has(a, "tags")
    /\ \E i \in 1..Len(a.tags) : ContainsQuery(a.tags[i], q)
    /\ \A i \in 1..Len(a.tags) : ~includes(a.tags[i], q)
    /\ ~ContainsQuery(a.title, q)
    /\ ~ContainsQuery(a.description, q)

\* C10: an article that the query matches only through one of its tags,
\* case-insensitively, is kept by every filter of the site (selectors at
\* "all"): ArticleList, ArticleListWithSearch and the overlay's
\* filteredArticles.
C10_TagMatchKeptByEveryFilter ==
    \A i \in 1..Len(articles) :
        MatchesByTagOnly(articles[i], search) =>
            /\ IsIn(articles[i], ArticleList(articles, search, <<>>, <<>>))
            /\ IsIn(articles[i], ArticleList2(articles, search, <<>>, <<>>))
            /\ IsIn(articles[i], ArticleListWithSearch(articles, search))
            /\ IsIn(articles[i], filteredArticles(articles, search, <<>>))

\* s is t with some of its elements left out, the others in t's order
RECURSIVE IsSubsequence(_, _)
IsSubsequence(s, t) ==
    IF s = <<>> THEN TRUE
    ELSE IF t = <<>> THEN FALSE
    ELSE IF Head(s) = Head(t) THEN IsSubsequence(Tail(s), Tail(t))
    ELSE IsSubsequence(s, Tail(t))

\* C11: with both selectors at "all", a query that occurs in the title of an
\* article, in any letter case, yields a subsequence of the list that holds
\* that article, for both ArticleList components. ("All" is read as each
\* component reads it: the empty string for the first ArticleList, the empty
\* string or the label for the second.)
C11_TitleMatchIsListed ==
    \A i \in 1..Len(articles) :
        ContainsQuery(articles[i].title, search) =>
            /\ (selectedTag = <<>> /\ selectedCategory = <<>>) =>
                  IsSubsequence(Shown, articles) /\ IsIn(articles[i], Shown)
            /\ (selectedTag \in AllTagValues
                    /\ selectedCategory \in AllCategoryValues) =>
                  IsSubsequence(Shown2, articles) /\ IsIn(articles[i], Shown2)

\* a query in another letter case than the title it occurs in, the selectors
\* at "all": the article is listed and another one is left out
C11_Witness ==
    /\ selectedTag = <<>>
    /\ selectedCategory = <<>>
    /\ search # <<>>
    /\ \E i \in 1..Len(articles) :
          /\ ContainsQuery(articles[i].title, search)
          /\ ~includes(articles[i].title, search)
          /\ IsIn(articles[i], Shown)
          /\ IsIn(articles[i], Shown2)
    /\ Len(Shown2) < Len(articles)

\* no article of the list carries the tag / is of the category
NoArticleTagged(tag) ==
    \A i \in 1..Len(articles) :
        ~(Has(articles[i], "tags") /\ TagsInclude(articles[i], tag))
NoArticleInCategory(cat) ==
    \A i \in 1..Len(articles) :
        ~(Has(articles[i], "category") /\ articles[i].category = cat)

\* C12: a tag selector that is not "all" and is the tag of no article, or a
\* category selector that is not "all" and is the category of no article,
\* makes both ArticleList components show nothing, whatever the query.
\* ("All" is the empty string for the first ArticleList, the empty string or
\* the label for the second.)
C12_UnusedSelectorShowsNothing ==
    /\ (\/ selectedTag # <<>> /\ NoArticleTagged(selectedTag)
        \/ selectedCategory # <<>> /\ NoArticleInCategory(selectedCategory))
            => Shown = <<>>
    /\ (\/ selectedTag \notin AllTagValues /\ NoArticleTagged(selectedTag)
        \/ selectedCategory \notin AllCategoryValues
              /\ NoArticleInCategory(selectedCategory))
            => Shown2 = <<>>

\* a list with an article without tags, whose tag selector holds a tag no
\* article carries while the query and the category keep every article
C12_Witness ==
    /\ \E i \in 1..Len(articles) : ~Has(articles[i], "tags")
    /\ selectedTag \notin AllTagValues
    /\ NoArticleTagged(selectedTag)
    /\ search = <<>>
    /\ selectedCategory = <<>>
    /\ Shown = <<>>
    /\ Shown2 = <<>>

-----------------------------------------------------------------------------
(* The renderer's claims *)

\* the plugins that have run in the call in progress
Ran == IF render.state = "processing" THEN render.doc.ran ELSE <<>>

\* the place of a plugin among those that have run, 0 when it has not
PlaceOf(plugin) ==
    IF \E i \in 1..Len(Ran) : Ran[i] = plugin
    THEN CHOOSE i \in 1..Len(Ran) : Ran[i] = plugin
    ELSE 0

\* once the later plugin has run, the earlier one has run before it
RunsBefore(earlier, later) ==
    PlaceOf(later) # 0 => (PlaceOf(earlier) # 0 /\ PlaceOf(earlier) < PlaceOf(later))

\* C13: in every call of getArticleBySlug the stages run one after the other
\* in a fixed order: parsing first, the math and GFM extensions before the
\* conversion of the Markdown tree to an HTML tree, math rendering and
\* syntax highlighting after that conversion, serialization to a string
\* last, and no stage twice.
C13_PipelineOrder ==
    /\ Ran # <<>> => Ran[1] = "remarkParse"
    /\ RunsBefore("remarkMath", "remarkRehype")
    /\ RunsBefore("remarkGfm", "remarkRehype")
    /\ RunsBefore("remarkRehype", "rehypeKatex")
    /\ RunsBefore("remarkRehype", "rehypePrettyCode")
    /\ \A i \in 1..Len(Ran) : Ran[i] = "rehypeStringify" => i = Len(Ran)
    /\ RunsBefore("rehypeKatex", "rehypeStringify")
    /\ RunsBefore("rehypePrettyCode", "rehypeStringify")
    /\ \A i, j \in 1..Len(Ran) : Ran[i] = Ran[j] => i = j

\* a call whose processor has run to its end: the document is a string
C13_Witness ==
    /\ render.state = "processing"
    /\ PlaceOf("rehypeStringify") = 7
    /\ render.doc.form = "html"

SummaryKeys ==
    {"slug", "title", "author", "date", "description", "tags", "category",
     "image", "undef"}

\* the article carries the values of the summary, and a content besides
AgreesWithSummary(article, summary) ==
    /\ \A k \in SummaryKeys : article[k] = summary[k]
    /\ "content" \in DOMAIN article

\* the article the last ArticlePage call rendered
PageArticle == last.out.article

\* C15: for every slug of getAllArticles' list, an Article returned by
\* getArticleBySlug(slug) has the slug, title, author, date, description,
\* tags, category and image of the loader's summary of that slug, plus a
\* content; an image that is the empty string is undefined in both.
C15_RendererAgreesWithLoader ==
    (/\ last.op = "ArticlePage"
     /\ last.out.page = "article"
     /\ getAllArticles.kind = "return") =>
        LET list == getAllArticles.value
        IN  /\ \E i \in 1..Len(list) : list[i].slug = last.arg
            /\ \A i \in 1..Len(list) :
                  list[i].slug = last.arg =>
                      /\ AgreesWithSummary(PageArticle, list[i])
                      /\ ImageUndefined(FileNamed(last.arg \o DotMd).data)
                            => ("image" \in PageArticle.undef
                                /\ "image" \in list[i].undef)

\* an article whose front matter has the empty string as image, rendered in
\* a directory of several articles
C15_Witness ==
    /\ last.op = "ArticlePage"
    /\ last.out.page = "article"
    /\ getAllArticles.kind = "return"
    /\ Len(getAllArticles.value) > 1
    /\ "image" \notin FileNamed(last.arg \o DotMd).data.undef
    /\ FileNamed(last.arg \o DotMd).data.image = <<>>
    /\ "image" \in PageArticle.undef

-----------------------------------------------------------------------------
(* The sitemap's claim *)

\* the author in lower case with every run of white space replaced by one
\* hyphen: a blank that follows a blank is dropped, any other blank is a
\* hyphen
HyphenatedAuthor(author) ==
    LET lower == toLowerCase(author)
        kept  == { i \in 1..Len(lower) :
                      ~(lower[i] = " " /\ i > 1 /\ lower[i - 1] = " ") }
        nth(k) == CHOOSE i \in kept :
                      Cardinality({j \in kept : j < i}) = k - 1
    IN  [k \in 1..Cardinality(kept) |->
            IF lower[nth(k)] = " " THEN "-" ELSE lower[nth(k)]]

\* the list the sitemap call loaded, and the entries it returned
SitemapList    == last.loaded.value
SitemapEntries == last.out.value

\* the urls of the author entries the sitemap has to hold
AuthorUrls ==
    { S_BaseUrl \o S_AuthorPath \o HyphenatedAuthor(SitemapList[i].author) :
        i \in 1..Len(SitemapList) }

\* C16: sitemap() returns the root entry, then one entry per article of the
\* loader's list with the URL <base>/article/<slug>, then one entry per
\* distinct author slug (the author in lower case, every run of white space
\* replaced by one hyphen) with the URL <base>/author/<slug>; no two author
\* entries share a URL.
C16_SitemapEntries ==
    (last.op = "sitemap" /\ last.loaded.kind = "return") =>
        LET n == Len(SitemapList)
        IN  /\ last.out.kind = "return"
            /\ Len(SitemapEntries) = 1 + n + Cardinality(AuthorUrls)
            /\ SitemapEntries[1] = RootEntry
            /\ \A i \in 1..n :
                  SitemapEntries[1 + i].url =
                      S_BaseUrl \o S_ArticlePath \o SitemapList[i].slug
            /\ { SitemapEntries[k].url : k \in (n + 2)..Len(SitemapEntries) }
                  = AuthorUrls
            /\ \A j, k \in (n + 2)..Len(SitemapEntries) :
                  SitemapEntries[j].url = SitemapEntries[k].url => j = k

\* a sitemap of articles whose authors are written differently and have the
\* same slug: they share one author entry
C16_Witness ==
    /\ last.op = "sitemap"
    /\ last.loaded.kind = "return"
    /\ \E i, j \in 1..Len(SitemapList) :
          /\ SitemapList[i].author # SitemapList[j].author
          /\ HyphenatedAuthor(SitemapList[i].author)
                = HyphenatedAuthor(SitemapList[j].author)
    /\ Len(SitemapEntries) < 1 + 2 * Len(SitemapList)

-----------------------------------------------------------------------------
(* MarkdownContent's claim *)

IsImg(n) == n.type = "tag" /\ n.name = "img"

\* the src of the <img> is there and starts with a slash
SrcStartsWithSlash(n) ==
    /\ "src" \notin n.attribs.undef
    /\ Len(n.attribs.src) > 0
    /\ n.attribs.src[1] = "/"

\* o is the wrapper of the responsive Image of the <img> n
IsImageWrapper(n, o) ==
    /\ o.type = "tag" /\ o.name = "span" /\ Len(o.children) = 1
    /\ o.children[1].type = "component" /\ o.children[1].name = "Image"
    /\ o.children[1].attribs.src = n.attribs.src

\* o is the wrapper of a plain lazy-loaded <img> with the src of n, if any
IsPlainLazyImg(n, o) ==
    /\ o.type = "tag" /\ o.name = "span" /\ Len(o.children) = 1
    /\ o.children[1].type = "tag" /\ o.children[1].name = "img"
    /\ o.children[1].attribs.loading = <<"l","a","z","y">>
    /\ "loading" \notin o.children[1].attribs.undef
    /\ ("src" \in o.children[1].attribs.undef) = ("src" \in n.attribs.undef)
    /\ o.children[1].attribs.src = n.attribs.src

\* what is rendered for the nodes is what the claim says, node by node
RECURSIVE RenderedAsClaimed(_, _)
RenderedAsClaimed(nodes, out) ==
    /\ Len(out) = Len(nodes)
    /\ \A i \in 1..Len(nodes) :
          IF IsImg(nodes[i])
          THEN /\ IsImageWrapper(nodes[i], out[i]) <=> SrcStartsWithSlash(nodes[i])
               /\ ~SrcStartsWithSlash(nodes[i]) => IsPlainLazyImg(nodes[i], out[i])
          ELSE /\ out[i].type = nodes[i].type
               /\ out[i].name = nodes[i].name
               /\ out[i].attribs = nodes[i].attribs
               /\ out[i].data = nodes[i].data
               /\ RenderedAsClaimed(nodes[i].children, out[i].children)

\* C17: of the nodes of the rendered HTML, MarkdownContent replaces an <img>
\* by the responsive Image wrapper exactly when its src starts with '/'; an
\* <img> with any other src, or none, becomes a plain lazy-loaded <img>; a
\* node that is no <img> is kept as it is, its children treated likewise.
C17_LocalImagesAreOptimized ==
    parsedContent.rendered => RenderedAsClaimed(content, parsedContent.nodes)

\* a rendered content with a local image and, inside a paragraph, an image
\* without src
C17_Witness ==
    /\ parsedContent.rendered
    /\ \E i, j \in 1..Len(content) :
          /\ IsImg(content[i])
          /\ SrcStartsWithSlash(content[i])
          /\ IsImageWrapper(content[i], parsedContent.nodes[i])
          /\ content[j].name = "p"
          /\ Len(content[j].children) = 1
          /\ IsImg(content[j].children[1])
          /\ "src" \in content[j].children[1].attribs.undef
          /\ IsPlainLazyImg(content[j].children[1],
                            parsedContent.nodes[j].children[1])

-----------------------------------------------------------------------------
(* The search overlay's claim *)

\* the results the overlay lists for the provider's state
OverlayResults == filteredArticles(articles, search, selectedCategory)

\* the query is not blank: it has a character that is no white space
NonBlank(q) == \E i \in 1..Len(q) : q[i] # " "

\* the article is one the claim has the overlay list
OverlayShouldList(a) ==
    /\ \/ ContainsQuery(a.title, search)
       \/ ContainsQuery(a.description, search)
       \/ (Has(a, "tags") /\ \E i \in 1..Len(a.tags) : ContainsQuery(a.tags[i], search))
       \/ (Has(a, "category") /\ ContainsQuery(a.category, search))
    /\ \/ selectedCategory = S_AllCategories
       \/ (Has(a, "category") /\ a.category = selectedCategory)

\* C18: for a query that is not blank, the overlay lists exactly the articles
\* of which the title, the description, a tag or the category contains the
\* query case-insensitively and whose category is the selected one unless
\* 'All Categories' is selected, in the loader's order. (The overlay's
\* selector holds 'All Categories' or a category, never the empty string.)
C18_OverlayListsExactlyMatches ==
    (NonBlank(search) /\ selectedCategory # <<>>) =>
        OverlayResults = SelectSeq(articles, OverlayShouldList)

\* a query that only the category of an article contains, in another letter
\* case: the overlay lists that article and leaves another one out
C18_Witness ==
    /\ NonBlank(search)
    /\ selectedCategory = S_AllCategories
    /\ Len(OverlayResults) = 1
    /\ Len(articles) = 2
    /\ LET a == OverlayResults[1]
       IN  /\ ContainsQuery(a.category, search)
           /\ ~includes(a.category, search)
           /\ ~ContainsQuery(a.title, search)
           /\ ~ContainsQuery(a.description, search)

-----------------------------------------------------------------------------
(* The theme's claim *)

-----------------------------------------------------------------------------
(* The author page's claim *)

IsAlphanumeric(c) == c \in Range(LowerChars) \cup Range(DigitChars)

\* the maximal runs of letters and digits of s, in order
RECURSIVE AlphanumericRuns(_)
AlphanumericRuns(s) ==
    IF s = <<>> THEN <<>>
    ELSE IF ~IsAlphanumeric(Head(s)) THEN AlphanumericRuns(Tail(s))
    ELSE LET n == CHOOSE k \in 1..Len(s) :
                      /\ \A i \in 1..k : IsAlphanumeric(s[i])
                      /\ k = Len(s) \/ ~IsAlphanumeric(s[k + 1])
         IN  <<SubSeq(s, 1, n)>> \o AlphanumericRuns(SubSeq(s, n + 1, Len(s)))

RECURSIVE JoinWithHyphens(_)
JoinWithHyphens(runs) ==
    IF runs = <<>> THEN <<>>
    ELSE IF Len(runs) = 1 THEN runs[1]
    ELSE runs[1] \o <<"-">> \o JoinWithHyphens(Tail(runs))

\* the author in lower case, every other character than a letter or a digit
\* a hyphen, runs of hyphens one hyphen, no hyphen at either end: the runs of
\* letters and digits joined by single hyphens
SlugifiedAuthor(author) == JoinWithHyphens(AlphanumericRuns(toLowerCase(author)))

\* the articles the claim has the author page list
ArticlesOfRoute ==
    SelectSeq(last.loaded.value,
              LAMBDA a : SlugifiedAuthor(a.author) = toLowerCase(last.arg))

\* C20: AuthorPage lists exactly the articles whose slugified author name
\* (lower case, every non-alphanumeric character a '-', runs of '-' made
\* one, '-' removed at both ends) equals the route parameter in lower case,
\* in the loader's order; when there is none, it produces the author
\* not-found page.
C20_AuthorPageListsAuthorsArticles ==
    (last.op = "AuthorPage" /\ last.loaded.kind = "return") =>
        IF ArticlesOfRoute = <<>>
        THEN last.out.page = "not-found"
        ELSE /\ last.out.page = "author"
             /\ last.out.articles = ArticlesOfRoute

\* the page of a route written with capitals, for an author whose name is
\* written in two ways: both articles are listed, a third one is not
C20_Witness ==
    /\ last.op = "AuthorPage"
    /\ last.loaded.kind = "return"
    /\ last.arg # toLowerCase(last.arg)
    /\ last.out.page = "author"
    /\ Len(last.out.articles) = 2
    /\ last.out.articles[1].author # last.out.articles[2].author
    /\ Len(last.loaded.value) = 3

\* the route parameter of an author url of the sitemap: what follows
\* <base>/author/
AuthorRouteOfUrl(url) ==
    SubSeq(url, Len(S_BaseUrl) + Len(S_AuthorPath) + 1, Len(url))

\* the author routes the last call generated: the names of the author
\* page's static parameters, or those of the sitemap's author urls
GeneratedAuthorRoutes ==
    IF last.op = "generateAuthorStaticParams"
    THEN {last.out.value[k].name : k \in 1..Len(last.out.value)}
    ELSE {AuthorRouteOfUrl(last.out.value[k].url) :
            k \in (Len(last.loaded.value) + 2)..Len(last.out.value)}

\* C21: every author route that the author page's generateStaticParams
\* produces, and every author url of the sitemap, is a route for which
\* AuthorPage lists at least one article, never its not-found page.
C21_GeneratedAuthorRoutesResolve ==
    (/\ last.op \in {"generateAuthorStaticParams", "sitemap"}
     /\ last.out.kind = "return") =>
        \A route \in GeneratedAuthorRoutes :
            AuthorPageOf(last.loaded, route).page = "author"

-----------------------------------------------------------------------------
(* The search overlay's handlers: claims *)

\* the article matches the current query and category: a blank query is
\* matched by every article
MatchesQueryAndCategory(a) ==
    /\ \/ ~NonBlank(search)
       \/ ContainsQuery(a.title, search)
       \/ ContainsQuery(a.description, search)
       \/ (Has(a, "tags") /\ \E i \in 1..Len(a.tags) : ContainsQuery(a.tags[i], search))
       \/ (Has(a, "category") /\ ContainsQuery(a.category, search))
    /\ \/ selectedCategory = S_AllCategories
       \/ (Has(a, "category") /\ a.category = selectedCategory)

\* the articles that match, in the loader's order
Matching == SelectSeq(articles, MatchesQueryAndCategory)

\* C22: in the overlay, Enter with at least one article matching the query
\* and category navigates to the first of them, closes the modal and clears
\* the query in that one step; Enter with no matching article changes
\* nothing; Escape closes the modal and clears the query without navigating.
C22_EnterAndEscape ==
    [][ /\ (lastEvent' = "Enter" /\ Matching # <<>>) =>
              /\ pushed' = Push(Matching[1].slug)
              /\ ~isModalOpen'
              /\ search' = <<>>
        /\ (lastEvent' = "Enter" /\ Matching = <<>>) =>
              /\ isModalOpen' = isModalOpen
              /\ search' = search
              /\ pushed' = NoCall
        /\ lastEvent' = "Escape" =>
              /\ ~isModalOpen'
              /\ search' = <<>>
              /\ pushed' = NoCall
      ]_vars

\* Enter has navigated to the second article of the list, the first one
\* matching the query; the modal is closed and the query cleared
C22_Witness ==
    /\ lastEvent = "Enter"
    /\ Len(articles) = 2
    /\ pushed = Push(articles[2].slug)
    /\ ~isModalOpen
    /\ search = <<>>

\* C23: in every reachable state of the search provider in which the modal
\* is closed the query is the empty string: every way of closing the modal
\* clears the query.
C23_ClosedModalHasEmptyQuery ==
    ~isModalOpen => search = <<>>

\* C24: a navigation that Enter triggers in the overlay targets an article
\* that the overlay's result list displays at that moment; with an empty or
\* blank query, for which no result is displayed, Enter neither navigates nor
\* closes the modal.
C24_EnterNavigatesToDisplayedResult ==
    [][ lastEvent' = "Enter" =>
            /\ pushed' # NoCall =>
                  \E i \in 1..Len(DisplayedResults) :
                      pushed' = Push(DisplayedResults[i].slug)
            /\ ~NonBlank(search) => (pushed' = NoCall /\ isModalOpen')
      ]_vars

\* the listeners registered are those of an open modal: one, or none
ListenerWhileOpen(open, n) == n = IF open THEN 1 ELSE 0

\* C28: the document's mousedown listener of the search provider is
\* registered exactly while the modal is open: at most one is registered
\* after any sequence of openings and closings, none once the modal is
\* closed; while the modal is open a mousedown outside its container closes
\* it and a mousedown inside does not.
C28_OutsideClickListener ==
    [][ /\ ListenerWhileOpen(isModalOpen, listeners)
        /\ ListenerWhileOpen(isModalOpen', listeners')
        /\ (isModalOpen /\ lastEvent' = "outside") => ~isModalOpen'
        /\ (isModalOpen /\ lastEvent' = "inside") => isModalOpen'
      ]_vars

\* a modal that was opened, typed into and closed by a mousedown outside it:
\* no listener is left
C28_Witness ==
    /\ lastEvent = "outside"
    /\ ~isModalOpen
    /\ search # <<>>
    /\ listeners = 0

\* the list the home page shows under the overlay: the later ArticleList
\* given the provider's search and selectedCategory, and no selectedTag
HomeListing == ArticleList2(articles, search, <<>>, selectedCategory)

\* C25: the overlay's result list and the home page's ArticleList are driven
\* by the same search and selectedCategory and agree: for a non-blank query
\* and any selected category they hold the same set of articles.
C25_OverlayAgreesWithHomeListing ==
    NonBlank(search) =>
        Range(filteredArticles(articles, search, selectedCategory))
            = Range(HomeListing)

-----------------------------------------------------------------------------
(* The calendar order of the listing *)

DigitValue(c) ==
    CASE c = "0" -> 0 [] c = "1" -> 1 [] c = "2" -> 2 [] c = "3" -> 3
      [] c = "4" -> 4 [] c = "5" -> 5 [] c = "6" -> 6 [] c = "7" -> 7
      [] c = "8" -> 8 [] c = "9" -> 9

RECURSIVE NumberOf(_)
NumberOf(s) ==
    IF s = <<>> THEN 0
    ELSE 10 * NumberOf(SubSeq(s, 1, Len(s) - 1)) + DigitValue(s[Len(s)])

\* the fields of a date written year-month-day, as numbers
RECURSIVE DateFields(_, _)
DateFields(s, field) ==
    IF s = <<>> THEN <<NumberOf(field)>>
    ELSE IF Head(s) = "-" THEN <<NumberOf(field)>> \o DateFields(Tail(s), <<>>)
    ELSE DateFields(Tail(s), Append(field, Head(s)))

\* the day a comes before the day b in the calendar
CalendarBefore(a, b) ==
    LET x == DateFields(a, <<>>)
        y == DateFields(b, <<>>)
    IN  \/ x[1] < y[1]
        \/ x[1] = y[1] /\ x[2] < y[2]
        \/ x[1] = y[1] /\ x[2] = y[2] /\ x[3] < y[3]

\* C27: getAllArticles lists the articles in calendar order, newest first,
\* also when a date is written without zero padding: of two articles the one
\* with the later date comes first ("2025-09-15" before "2025-09-2").
C27_CalendarOrderNewestFirst ==
    getAllArticles.kind = "return" =>
        LET list == getAllArticles.value
        IN  \A i, j \in 1..Len(list) :
                i < j => ~CalendarBefore(list[i].date, list[j].date)

-----------------------------------------------------------------------------
(* Files outside the front-matter contract *)

\* the summary of the file: its fields are those of the front matter, the
\* missing ones undefined
SummaryOf(file, list) ==
    \E i \in 1..Len(list) :
        /\ list[i].slug = StripMd(file.name)
        /\ \A key \in {"title", "description"} :
              IF key \in file.content.data.undef
              THEN ~Has(list[i], key)
              ELSE Has(list[i], key) /\ list[i][key] = file.content.data[key]

\* C26: a Markdown file without a front-matter block, or whose front matter
\* lacks title or description, still yields a summary (those fields
\* undefined), and the listing filters (both ArticleLists, the overlay's
\* filteredArticles) evaluated over the list never throw, whatever the query
\* and the selectors: the home listing is still produced.
C26_LooseFrontMatterStillListed ==
    /\ getAllArticles.kind = "return"
    /\ \A i \in 1..Len(files) : SummaryOf(files[i], getAllArticles.value)
    /\ ArticleListFilter(articles, search, selectedTag, selectedCategory).kind
          = "return"
    /\ ArticleList2Filter(articles, search, selectedTag, selectedCategory).kind
          = "return"
    /\ filteredArticlesMemo(articles, search, selectedCategory).kind = "return"

-----------------------------------------------------------------------------
(* The filter modal of the home page *)

\* C29: no reachable action of FilterModalManager sets isModalOpen to true
\* (the Header that would open the modal is commented out), so the modal is
\* always closed, search, selectedTag and selectedCategory keep their initial
\* empty values, the props injected into the children are always '', '', ''
\* and the wrapped ArticleList always shows the full list.
C29_FilterModalNeverOpens ==
    /\ fmState = [isModalOpen |-> FALSE, search |-> <<>>,
                  selectedTag |-> <<>>, selectedCategory |-> <<>>]
    /\ fmChildren.kind = "rendered" =>
          /\ fmChildren.props = [search |-> <<>>, selectedTag |-> <<>>,
                                 selectedCategory |-> <<>>]
          /\ fmChildren.shown = articles

\* the manager rendered its children over a list of two articles
C29_Witness ==
    /\ fmChildren.kind = "rendered"
    /\ Len(articles) = 2
    /\ fmChildren.shown = articles

====
